---------------------------- MODULE Spec2Model ----------------------------
(***************************************************************************)
(* Model of the two MCP servers of the repository: src/nba_scores.py (NBA  *)
(* games, team schedule, standings) and src/weather.py (alerts, forecast). *)
(*                                                                         *)
(* Text is a sequence of one-character strings, so that lower(), upper(),  *)
(* strip(), the `in` substring test and strptime are computed character by *)
(* character.  A returned message is a record naming the message and the   *)
(* values interpolated into it; an exception leaving a handler is a result *)
(* of kind "exception".  None is the model value NoneVal.                  *)
(***************************************************************************)
EXTENDS Integers, Sequences, FiniteSets, TLC

VARIABLES
    op,             \* the operation invoked ("none" before any)
    pc,             \* "idle", "awaiting" (suspended in a fetch), "done"
    arg,            \* the arguments of the invocation
    fetches,        \* fetches issued by the invocation, in order
    returns,        \* what the fetch client gave back for each, in order
    teams,          \* teams_data.get("data", [])
    games,          \* games of the season / the date / the team
    weather,        \* decoded NWS payload the handler holds
    matching_team,  \* get_team_schedule: index of the matched team, 0 = None
    team_stats,     \* get_standings: ordered dict id -> counters
    east_teams,     \* get_standings: sorted East rows
    west_teams,     \* get_standings: sorted West rows
    formatted,      \* format_game / format_alert / forecast blocks produced
    result          \* what the operation gave its caller

vars == << op, pc, arg, fetches, returns, teams, games, weather, matching_team,
           team_stats, east_teams, west_teams, formatted, result >>

NoneVal == "None"

-----------------------------------------------------------------------------
(* Bounds of the model.                                                    *)

MaxTeams == 3       \* length of a fetched team list
MaxQueryLen == 2    \* length of a team_name query
MaxGames == 2       \* length of a fetched game list
MaxStateLen == 3    \* length of a state argument
MaxFeatures == 2    \* alert features of a response
MaxPeriods == 6     \* forecast periods of a response

-----------------------------------------------------------------------------
(* Text primitives.                                                        *)

LowerChar(c) ==
    CASE c = "A" -> "a"
      [] c = "B" -> "b"
      [] c = "C" -> "c"
      [] OTHER -> c

UpperChar(c) ==
    CASE c = "a" -> "A"
      [] c = "b" -> "B"
      [] c = "c" -> "C"
      [] OTHER -> c

\* str.lower()
Lower(s) == [i \in 1..Len(s) |-> LowerChar(s[i])]

\* str.upper()
Upper(s) == [i \in 1..Len(s) |-> UpperChar(s[i])]

IsSpace(c) == c = " "
IsAlphaChar(c) == c \in {"a", "b", "c", "A", "B", "C"}

RECURSIVE LStrip(_)
LStrip(s) == IF s # << >> /\ IsSpace(Head(s)) THEN LStrip(Tail(s)) ELSE s

RECURSIVE RStrip(_)
RStrip(s) ==
    IF s # << >> /\ IsSpace(s[Len(s)]) THEN RStrip(SubSeq(s, 1, Len(s) - 1)) ELSE s

\* str.strip()
Strip(s) == RStrip(LStrip(s))

\* str.isalpha(): at least one character, and all of them letters.
IsAlpha(s) == s # << >> /\ \A i \in 1..Len(s) : IsAlphaChar(s[i])

DigitChars == <<"0", "1", "2", "3", "4", "5", "6", "7", "8", "9">>
IsDigit(c) == \E k \in 1..10 : DigitChars[k] = c
DigitVal(c) == (CHOOSE k \in 1..10 : DigitChars[k] = c) - 1
AllDigits(s) == \A i \in 1..Len(s) : IsDigit(s[i])

RECURSIVE IntOf(_)
IntOf(s) == IF s = << >> THEN 0
            ELSE 10 * IntOf(SubSeq(s, 1, Len(s) - 1)) + DigitVal(s[Len(s)])

\* q in s
IsSubstring(q, s) ==
    \E i \in 0..(Len(s) - Len(q)) : SubSeq(s, i + 1, i + Len(q)) = q

\* All sequences over S of length at most n.
SeqsUpTo(S, n) == UNION { [1..k -> S] : k \in 0..n }

-----------------------------------------------------------------------------
(* Team resolution of get_team_schedule.                                   *)

\* dict.get(field, "") on a team record: an absent field is "".
TeamRec(i, fn, ab, ci, nm, conf) ==
    [id |-> i, full_name |-> fn, abbreviation |-> ab, city |-> ci,
     name |-> nm, conference |-> conf]

\* The condition of the loop body.
TeamMatches(team_name_lower, team) ==
    \/ IsSubstring(team_name_lower, Lower(team.full_name))
    \/ team_name_lower = Lower(team.abbreviation)
    \/ IsSubstring(team_name_lower, Lower(team.city))
    \/ IsSubstring(team_name_lower, Lower(team.name))

RECURSIVE ScanTeams(_, _, _)
ScanTeams(team_name_lower, ts, i) ==
    IF i > Len(ts) THEN 0
    ELSE IF TeamMatches(team_name_lower, ts[i]) THEN i
    ELSE ScanTeams(team_name_lower, ts, i + 1)

\* A resolver that looks for an exact abbreviation before any substring.
FindMatchingTeamPreferAbbreviation(team_name, ts) ==
    LET q == Lower(team_name)
        exact == { i \in 1..Len(ts) : q = Lower(ts[i].abbreviation) }
    IN  IF exact # {} THEN CHOOSE i \in exact : \A j \in exact : i <= j
        ELSE ScanTeams(q, ts, 1)

\* The query is lower-cased (and nothing else), then the list is scanned in
\* order and the scan stops at the first match.  0 stands for None.
FindMatchingTeam(team_name, ts) ==
    ScanTeams(Lower(team_name), ts, 1)

-----------------------------------------------------------------------------
(* Game records.  home_id / visitor_id stand for                           *)
(* game.get("home_team", {}).get("id"); NoId is an id that is absent (None)*)
(* or 0, which `if home_id and visitor_id` treats alike.  NoScore is a     *)
(* score that is absent (None); scores that are present are >= 0.  date is *)
(* the rank of the date string in string order (0: absent, ""), and season *)
(* is 0 when absent.                                                       *)

NoId == 0
NoScore == -1

GameRec(st, d, h, v, hs, vs, se, po) ==
    [status |-> st, date |-> d, home_id |-> h, visitor_id |-> v,
     home_team_score |-> hs, visitor_team_score |-> vs,
     season |-> se, postseason |-> po]

-----------------------------------------------------------------------------
(* format_game: the lines of the rendered block, in order.  A line is its *)
(* label and, for the winner line, the side whose full_name it prints.     *)

Line(label, value) == [line |-> label, value |-> value]

\* The if / elif / else under "# Determine winner".
WinnerLine(game) ==
    IF game.home_team_score > game.visitor_team_score
    THEN << Line("Winner", "home") >>
    ELSE IF game.visitor_team_score > game.home_team_score
    THEN << Line("Winner", "visitor") >>
    ELSE << Line("Result", "Tie") >>

FormatGame(game) ==
    << Line("Matchup", "visitor @ home"), Line("Date", "date"),
       Line("Status", game.status) >>
    \o (IF game.home_team_score # NoScore /\ game.visitor_team_score # NoScore
        THEN << Line("Score", "visitor - home") >> \o WinnerLine(game)
        ELSE << >>)
    \o (IF game.season # 0 THEN << Line("Season", "season") >> ELSE << >>)
    \o (IF game.postseason THEN << Line("Playoff Game", "Yes") >> ELSE << >>)

FormatGames(gs) == [i \in 1..Len(gs) |-> FormatGame(gs[i])]

-----------------------------------------------------------------------------
(* get_standings: the aggregation.  team_stats is a dict, which keeps the  *)
(* order in which its keys were first inserted: a sequence of entries.     *)

DictIndex(d, k) ==
    IF \E i \in 1..Len(d) : d[i].id = k
    THEN CHOOSE i \in 1..Len(d) : d[i].id = k
    ELSE 0

\* d[k] = entry: a key already there keeps its place.
DictSet(d, entry) ==
    IF DictIndex(d, entry.id) # 0
    THEN [d EXCEPT ![DictIndex(d, entry.id)] = entry]
    ELSE Append(d, entry)

RECURSIVE InitTeamStats(_, _)
InitTeamStats(d, ts) ==
    IF ts = << >> THEN d
    ELSE InitTeamStats(
            DictSet(d, [id |-> Head(ts).id, name |-> Head(ts).full_name,
                        conference |-> Head(ts).conference,
                        wins |-> 0, losses |-> 0]),
            Tail(ts))

\* team_stats[win_id]["wins"] += 1 then team_stats[lose_id]["losses"] += 1;
\* a key that is not in the dict raises KeyError at the statement using it.
Attribute(st, win_id, lose_id) ==
    IF DictIndex(st.stats, win_id) = 0 THEN [st EXCEPT !.raised = TRUE]
    ELSE LET s1 == [st.stats EXCEPT ![DictIndex(st.stats, win_id)].wins = @ + 1]
         IN  IF DictIndex(s1, lose_id) = 0
             THEN [stats |-> s1, raised |-> TRUE]
             ELSE [stats |-> [s1 EXCEPT ![DictIndex(s1, lose_id)].losses = @ + 1],
                   raised |-> FALSE]

\* An aggregation that forgets the status test.
ProcessGameAnyStatus(st, game) ==
    IF /\ game.home_id # NoId /\ game.visitor_id # NoId
       /\ game.home_team_score # NoScore /\ game.visitor_team_score # NoScore
    THEN IF game.home_team_score > game.visitor_team_score
         THEN Attribute(st, game.home_id, game.visitor_id)
         ELSE Attribute(st, game.visitor_id, game.home_id)
    ELSE st

\* The body of "for game in games_data.get('data', [])".
ProcessGame(st, game) ==
    IF game.status # "Final" THEN st
    ELSE IF /\ game.home_id # NoId /\ game.visitor_id # NoId
            /\ game.home_team_score # NoScore /\ game.visitor_team_score # NoScore
    THEN IF game.home_team_score > game.visitor_team_score
         THEN Attribute(st, game.home_id, game.visitor_id)
         ELSE Attribute(st, game.visitor_id, game.home_id)
    ELSE st

RECURSIVE ProcessGames(_, _)
ProcessGames(st, gs) ==
    IF gs = << >> \/ st.raised THEN st
    ELSE ProcessGames(ProcessGame(st, Head(gs)), Tail(gs))

\* The state of the aggregation when the loop over the games ends, or when
\* a KeyError ends it.
Aggregate(ts, gs) ==
    ProcessGames([stats |-> InitTeamStats(<< >>, ts), raised |-> FALSE], gs)

-----------------------------------------------------------------------------
(* get_standings: rows, partitions and their order.                        *)

\* wins / total * 100 as the exact fraction num / den.  Within the bounds
\* two of these floats are equal, or ordered, exactly as the fractions are.
WinPct(wins, total) ==
    IF total > 0 THEN [num |-> wins * 100, den |-> total]
    ELSE [num |-> 0, den |-> 1]

PctLess(a, b) == a.num * b.den < b.num * a.den

TeamInfo(stats) ==
    [name |-> stats.name, wins |-> stats.wins, losses |-> stats.losses,
     win_pct |-> WinPct(stats.wins, stats.wins + stats.losses)]

RECURSIVE Partition(_, _)
Partition(d, conf) ==
    IF d = << >> THEN << >>
    ELSE (IF Head(d).conference = conf THEN << TeamInfo(Head(d)) >> ELSE << >>)
         \o Partition(Tail(d), conf)

\* (wins, win_pct) compared as tuples.
KeyLess(a, b) ==
    \/ a.wins < b.wins
    \/ a.wins = b.wins /\ PctLess(a.win_pct, b.win_pct)

\* The place of x in a descending list that keeps equal keys in their order
\* of arrival: before the first row whose key is less.
InsertPlace(sorted, x) ==
    IF \E i \in 1..Len(sorted) : KeyLess(sorted[i], x)
    THEN CHOOSE i \in 1..Len(sorted) :
            /\ KeyLess(sorted[i], x)
            /\ \A j \in 1..(i - 1) : ~KeyLess(sorted[j], x)
    ELSE Len(sorted) + 1

InsertRow(sorted, x) ==
    SubSeq(sorted, 1, InsertPlace(sorted, x) - 1) \o << x >>
    \o SubSeq(sorted, InsertPlace(sorted, x), Len(sorted))

RECURSIVE SortFrom(_, _)
SortFrom(sorted, rest) ==
    IF rest = << >> THEN sorted
    ELSE SortFrom(InsertRow(sorted, Head(rest)), Tail(rest))

Reverse(s) == [i \in 1..Len(s) |-> s[Len(s) + 1 - i]]

\* An ascending sort turned around: equal keys come out in reverse.
SortRowsReversed(rows) == SortFrom(<< >>, Reverse(rows))

\* list.sort(key=lambda x: (x["wins"], x["win_pct"]), reverse=True): Python's
\* sort is stable, and keeps equal keys in their order under reverse=True.
SortRows(rows) == SortFrom(<< >>, rows)

\* Everything get_standings computes after its two fetches.
Standings(ts, gs) ==
    LET agg == Aggregate(ts, gs)
    IN  [raised |-> agg.raised,
         stats |-> agg.stats,
         east |-> IF agg.raised THEN << >>
                  ELSE SortRows(Partition(agg.stats, "East")),
         west |-> IF agg.raised THEN << >>
                  ELSE SortRows(Partition(agg.stats, "West"))]

Text(msg) == [kind |-> "text", msg |-> msg]
Exception(name) == [kind |-> "exception", msg |-> name]
NoResult == [kind |-> "none", msg |-> ""]

-----------------------------------------------------------------------------
(* The teams and games the upstream service is taken to send.              *)

\* id, full_name, abbreviation, city, name of a team.
BaseTeam(i) ==
    CASE i = 1 -> TeamRec(1, <<"A", "b", " ", "B", "a">>, <<"A", "B", "B">>,
                          <<"A", "b">>, <<"B", "a">>, "East")
      [] i = 2 -> TeamRec(2, <<"B", "a", " ", "A", "a">>, <<"A", "B">>,
                          <<"B", "a">>, <<"A", "a">>, "East")
      [] i = 3 -> TeamRec(3, <<"B", "b">>, <<"B", "A">>, << >>, << >>, "East")
      [] OTHER -> TeamRec(i, << >>, <<"B", "B">>, << >>, << >>, "East")

TeamIn(i, conf) == [BaseTeam(i) EXCEPT !.conference = conf]

FinalGame(h, v, hs, vs) == GameRec("Final", 0, h, v, hs, vs, 0, FALSE)

\* Candidates of the resolver.
ResolveTeams == { BaseTeam(i) : i \in 1..4 }
QueryChars == {"a", "b", "A", " "}

\* A fetched team list: at most MaxTeams teams, no id twice.
Rosters(universe) ==
    { ts \in SeqsUpTo(universe, MaxTeams) :
        \A i, j \in 1..Len(ts) : i # j => ts[i].id # ts[j].id }

\* Games of any shape between the teams 1 and 2, for rosters of one
\* conference: a team or a score may be absent, the status may be any.
AggTeams == { TeamIn(i, "East") : i \in {1, 2} }
AggGames ==
    { FinalGame(pr[1], pr[2], hs, vs) : pr \in { <<1, 2>>, <<2, 1>> },
                                        hs \in {0, 1}, vs \in {0, 1} }
    \cup { FinalGame(NoId, 1, 1, 0), FinalGame(1, NoId, 1, 0),
           FinalGame(NoId, NoId, 1, 0) }
    \cup { FinalGame(1, 2, NoScore, 0), FinalGame(1, 2, 1, NoScore),
           FinalGame(1, 2, NoScore, NoScore) }
    \cup { GameRec("Scheduled", 0, 1, 2, NoScore, NoScore, 0, FALSE),
           GameRec("In Progress", 0, 1, 2, 1, 0, 0, FALSE) }

\* Completed games (status Final, both scores, both teams) among the teams
\* 1, 2 and 3, for rosters over the conferences.
RosterTeams ==
    { TeamIn(i, conf) : i \in 1..3, conf \in {"East", "West", "Unknown"} }
CompletedGames ==
    { FinalGame(pr[1], pr[2], sc[1], sc[2]) :
        pr \in { <<1, 2>>, <<1, 3>>, <<2, 3>> },
        sc \in { <<1, 0>>, <<0, 1>>, <<1, 1>> } }

-----------------------------------------------------------------------------
(* The resolver, the aggregation and the formatter applied to drawn inputs.*)

Idle(o) ==
    /\ op = o /\ pc = "idle"
    /\ fetches = << >> /\ returns = << >> /\ weather = NoneVal
    /\ matching_team = 0 /\ team_stats = << >>
    /\ east_teams = << >> /\ west_teams = << >>
    /\ formatted = << >> /\ result = NoResult

InitResolve ==
    /\ Idle("get_team_schedule")
    /\ arg \in [team_name : SeqsUpTo(QueryChars, MaxQueryLen)]
    /\ teams \in Rosters(ResolveTeams)
    /\ games = << >>

\* The loop of get_team_schedule over teams_data.get("data", []).
Resolve ==
    /\ op = "get_team_schedule" /\ pc = "idle"
    /\ matching_team' = FindMatchingTeam(arg.team_name, teams)
    /\ result' = IF matching_team' = 0 THEN Text("Error: Team not found")
                 ELSE Text("team resolved")
    /\ pc' = "done"
    /\ UNCHANGED << op, arg, fetches, returns, teams, games, weather,
                    team_stats, east_teams, west_teams, formatted >>

SpecResolve == InitResolve /\ [][Resolve]_vars

InitAggregate ==
    /\ Idle("get_standings")
    /\ arg = [season |-> 2024]
    /\ teams \in Rosters(AggTeams)
    /\ games \in SeqsUpTo(AggGames, MaxGames)

InitCompleted ==
    /\ Idle("get_standings")
    /\ arg = [season |-> 2024]
    /\ teams \in Rosters(RosterTeams)
    /\ games \in SeqsUpTo(CompletedGames, MaxGames)

\* get_standings from "# Calculate standings from games" to its return.
ComputeStandings ==
    /\ op = "get_standings" /\ pc = "idle"
    /\ LET s == Standings(teams, games)
       IN  /\ team_stats' = s.stats
           /\ east_teams' = s.east
           /\ west_teams' = s.west
           /\ result' = IF s.raised THEN Exception("KeyError")
                        ELSE Text("standings")
    /\ pc' = "done"
    /\ UNCHANGED << op, arg, fetches, returns, teams, games, weather,
                    matching_team, formatted >>

\* format_game over the same games.
RenderGames ==
    /\ op = "get_standings" /\ formatted = << >> /\ games # << >>
    /\ formatted' = FormatGames(games)
    /\ UNCHANGED << op, pc, arg, fetches, returns, teams, games, weather,
                    matching_team, team_stats, east_teams, west_teams, result >>

NextGames == ComputeStandings \/ RenderGames

SpecAggregate == InitAggregate /\ [][NextGames]_vars

SpecCompleted == InitCompleted /\ [][ComputeStandings]_vars

-----------------------------------------------------------------------------
(* The fetch clients.  One call makes one client.get; what the call meets  *)
(* is its http outcome: "ok" (a 2xx response whose body decodes),          *)
(* "status_error" (raise_for_status raises HTTPStatusError),               *)
(* "request_error" (client.get raises a RequestError: connection, DNS,     *)
(* timeout) or "decode_error" (response.json() raises).                    *)

HttpOutcomes == {"ok", "status_error", "request_error", "decode_error"}

ClientResult(http, gets, value, raised) ==
    [http |-> http, attempts |-> gets, value |-> value, raised |-> raised]

\* A client without the last handler: a body that does not decode escapes.
MakeApiRequestNoCatchAll(http) ==
    CASE http = "ok" -> ClientResult(http, 1, "json", FALSE)
      [] http = "status_error" -> ClientResult(http, 1, "None", FALSE)
      [] http = "request_error" -> ClientResult(http, 1, "None", FALSE)
      [] OTHER -> ClientResult(http, 1, "None", TRUE)

\* make_api_request: the try block holds a single get, and each of the
\* three handlers logs and returns None.
MakeApiRequest(http) ==
    CASE http = "ok" -> ClientResult(http, 1, "json", FALSE)
      [] http = "status_error" -> ClientResult(http, 1, "None", FALSE)
      [] http = "request_error" -> ClientResult(http, 1, "None", FALSE)
      [] OTHER -> ClientResult(http, 1, "None", FALSE)

\* make_nws_request: the same, with the NWS headers.
MakeNwsRequest(http) ==
    CASE http = "ok" -> ClientResult(http, 1, "json", FALSE)
      [] http = "status_error" -> ClientResult(http, 1, "None", FALSE)
      [] http = "request_error" -> ClientResult(http, 1, "None", FALSE)
      [] OTHER -> ClientResult(http, 1, "None", FALSE)

\* A decoded body is a record; kind "empty" is a body that is falsy ({}).
NoData == [kind |-> "None"]
EmptyBody == [kind |-> "empty"]

\* What a call can meet: a body on "ok", nothing otherwise.
Responses(bodies) ==
    { [http |-> "ok", body |-> bd] : bd \in bodies }
    \cup { [http |-> h, body |-> EmptyBody] : h \in HttpOutcomes \ {"ok"} }

\* The value the handler receives from the client.
Received(r, resp) == IF r.value = "json" THEN resp.body ELSE NoData

\* not data
Falsy(data) == data.kind \in {"None", "empty"}

Fetch(url, param) == [url |-> url, param |-> param]

-----------------------------------------------------------------------------
(* Input validation.                                                       *)

MonthForm(m) ==
    \/ Len(m) = 2 /\ m[1] = "1" /\ m[2] \in {"0", "1", "2"}
    \/ Len(m) = 2 /\ m[1] = "0" /\ IsDigit(m[2]) /\ m[2] # "0"
    \/ Len(m) = 1 /\ IsDigit(m[1]) /\ m[1] # "0"

DayForm(d) ==
    \/ Len(d) = 2 /\ d[1] = "3" /\ d[2] \in {"0", "1"}
    \/ Len(d) = 2 /\ d[1] \in {"1", "2"} /\ IsDigit(d[2])
    \/ Len(d) = 2 /\ d[1] = "0" /\ IsDigit(d[2]) /\ d[2] # "0"
    \/ Len(d) = 1 /\ IsDigit(d[1]) /\ d[1] # "0"
    \/ Len(d) = 2 /\ d[1] = " " /\ IsDigit(d[2]) /\ d[2] # "0"

DayValue(d) == IF d[1] = " " THEN DigitVal(d[2]) ELSE IntOf(d)

IsLeap(y) == (y % 4 = 0 /\ y % 100 # 0) \/ y % 400 = 0

DaysInMonth(y, m) ==
    IF m = 2 THEN (IF IsLeap(y) THEN 29 ELSE 28)
    ELSE IF m \in {4, 6, 9, 11} THEN 30 ELSE 31

\* The date the constructor accepts: year >= MINYEAR, day within the month.
IsCalendarDate(y, m, d) == y >= 1 /\ m \in 1..12 /\ d \in 1..DaysInMonth(y, m)

\* The text matches %Y-%m-%d with the second hyphen at place j, all of it:
\* %Y is four digits, %m and %d are one or two digits (see MonthForm,
\* DayForm), and nothing may remain.
MatchesFormat(date, j) ==
    /\ Len(date) > j
    /\ AllDigits(SubSeq(date, 1, 4))
    /\ date[5] = "-" /\ date[j] = "-"
    /\ MonthForm(SubSeq(date, 6, j - 1))
    /\ DayForm(SubSeq(date, j + 1, Len(date)))

\* datetime.strptime(date, "%Y-%m-%d") does not raise ValueError.
StrptimeAccepts(date) ==
    \E j \in {7, 8} :
        /\ MatchesFormat(date, j)
        /\ IsCalendarDate(IntOf(SubSeq(date, 1, 4)), IntOf(SubSeq(date, 6, j - 1)),
                          DayValue(SubSeq(date, j + 1, Len(date))))

\* state.upper().strip()
NormalizeState(state) == Strip(Upper(state))

\* not (len(state) != 2 or not state.isalpha()), on the normalized state.
StateCodeOk(state) ==
    Len(NormalizeState(state)) = 2 /\ IsAlpha(NormalizeState(state))

\* The bounding box, in ten-thousandths of a degree.
LatMin == 240000
LatMax == 500000
LonMin == -1250000
LonMax == -660000

InUsBounds(latitude, longitude) ==
    /\ LatMin <= latitude /\ latitude <= LatMax
    /\ LonMin <= longitude /\ longitude <= LonMax

-----------------------------------------------------------------------------
(* What the callers and the services are taken to send.                    *)

Hyphen == <<"-">>
YearParts == { <<"2", "0", "2", "4">>, <<"2", "0", "2", "3">>, <<"2", "4">>,
               <<"0", "0", "0", "0">> }
MonthParts == { <<"0", "2">>, <<"2">>, <<"1", "2">>, <<"1", "3">>, <<"0", "0">>,
                <<"0", "4">> }
DayParts == { <<"2", "9">>, <<"3", "0">>, <<"3", "1">>, <<"5">>, <<"0", "5">>,
              <<" ", "5">>, <<"0", "0">>, <<"3", "2">> }
DateArgs ==
    { y \o Hyphen \o m \o Hyphen \o d : y \in YearParts, m \in MonthParts,
                                        d \in DayParts }
    \cup { << >>, <<"2", "0", "2", "4", "/", "0", "2", "/", "0", "5">>,
           <<"2", "0", "2", "4", "-", "0", "2", "-", "0", "5", " ">> }

StateChars == {"c", "A", " ", "1"}
StateArgs ==
    SeqsUpTo(StateChars, MaxStateLen)
    \cup { <<"c", "a", "l", "i", "f", "o", "r", "n", "i", "a">>, <<"c", "a">> }

Latitudes == {100000, 239999, 240000, 385816, 500000, 500001}
Longitudes == {-1250001, -1250000, -1214944, -1210000, -660000, -659999}

Seasons == {"None", "2023"}

\* Bodies of the games endpoints: falsy, or an object whose "data" is a
\* list (an absent "data" reads as the empty list).
ScheduleGames ==
    { GameRec("Final", 2, 1, 2, 1, 0, 2023, FALSE),
      GameRec("Final", 1, 2, 1, 1, 1, 2023, TRUE),
      GameRec("Scheduled", 0, 1, 2, NoScore, NoScore, 0, FALSE) }
ListBodies(lists) == { EmptyBody } \cup { [kind |-> "object", data |-> l] : l \in lists }

\* Bodies of the NWS endpoints.  A feature either has "properties" or not;
\* a period either has all six fields the forecast block reads or not.
AlertBodies ==
    { EmptyBody, [kind |-> "no_features"] }
    \cup { [kind |-> "features", features |-> f] : f \in SeqsUpTo(BOOLEAN, MaxFeatures) }
PointsBodies ==
    { EmptyBody, [kind |-> "no_properties"], [kind |-> "no_forecast"],
      [kind |-> "forecast_url"] }
ForecastBodies ==
    { EmptyBody, [kind |-> "no_properties"], [kind |-> "no_periods"] }
    \cup { [kind |-> "periods", periods |-> ps] : ps \in SeqsUpTo(BOOLEAN, MaxPeriods) }

-----------------------------------------------------------------------------
(* Helpers of the handlers.                                                *)

Min(x, y) == IF x <= y THEN x ELSE y
Take(seq, n) == SubSeq(seq, 1, Min(n, Len(seq)))

\* games.sort(key=lambda x: x.get("date", "")): ascending and stable.
DatePlace(sorted, g) ==
    IF \E i \in 1..Len(sorted) : g.date < sorted[i].date
    THEN CHOOSE i \in 1..Len(sorted) :
            /\ g.date < sorted[i].date
            /\ \A j \in 1..(i - 1) : ~(g.date < sorted[j].date)
    ELSE Len(sorted) + 1

RECURSIVE SortByDateFrom(_, _)
SortByDateFrom(sorted, rest) ==
    IF rest = << >> THEN sorted
    ELSE SortByDateFrom(
            SubSeq(sorted, 1, DatePlace(sorted, Head(rest)) - 1) \o << Head(rest) >>
            \o SubSeq(sorted, DatePlace(sorted, Head(rest)), Len(sorted)),
            Tail(rest))

SortByDate(gs) == SortByDateFrom(<< >>, gs)

ScheduleLimit == 20
PeriodLimit == 5

\* format_alert: feature["properties"] raises KeyError when it is absent.
AlertsRaise(features) == \E i \in 1..Len(features) : ~features[i]
FormatAlerts(features) == [i \in 1..Len(features) |-> << Line("Event", "event") >>]

\* The loop over periods[:5]: period["name"] and the like raise KeyError.
PeriodsRaise(periods) ==
    \E i \in 1..Len(Take(periods, PeriodLimit)) : ~periods[i]
FormatPeriods(periods) ==
    [i \in 1..Len(Take(periods, PeriodLimit)) |-> << Line("Period", "name") >>]

NoArgs == [none |-> TRUE]

Init ==
    /\ Idle("none")
    /\ arg = NoArgs
    /\ teams = << >>
    /\ games = << >>

\* The handler suspends in its next fetch.
Await(fetch) ==
    /\ fetches' = Append(fetches, fetch)
    /\ pc' = "awaiting"
    /\ result' = result

\* The handler returns or raises.
Finish(res) ==
    /\ fetches' = fetches
    /\ pc' = "done"
    /\ result' = res

Awaiting(o, url) ==
    /\ op = o /\ pc = "awaiting"
    /\ fetches[Len(fetches)].url = url

-----------------------------------------------------------------------------
(* The six operations.  A handler runs from its call to its first fetch,   *)
(* and from the return of a fetch to the next fetch or to its end.         *)

Escaped == Exception("escaped from the fetch client")

\* The common end of get_today_games and get_games_by_date.
Listing(r, data, unable, nothing, heading) ==
    IF r.raised THEN [games |-> << >>, formatted |-> << >>, result |-> Escaped]
    ELSE IF Falsy(data)
    THEN [games |-> << >>, formatted |-> << >>, result |-> Text(unable)]
    ELSE IF data.data = << >>
    THEN [games |-> << >>, formatted |-> << >>, result |-> Text(nothing)]
    ELSE [games |-> data.data, formatted |-> FormatGames(data.data),
          result |-> Text(heading)]

GetTodayGames ==
    /\ op = "none" /\ pc = "idle"
    /\ op' = "get_today_games"
    /\ arg' = [today |-> "today"]
    /\ Await(Fetch("games?dates[]", "today"))
    /\ UNCHANGED << returns, teams, games, weather, matching_team, team_stats,
                    east_teams, west_teams, formatted >>

TodayGamesReturn ==
    /\ Awaiting("get_today_games", "games?dates[]")
    /\ \E resp \in Responses(ListBodies(SeqsUpTo(ScheduleGames, MaxGames))) :
          LET r == MakeApiRequest(resp.http)
              l == Listing(r, Received(r, resp),
                           "Error: Unable to fetch today's NBA games",
                           "No NBA games scheduled for today",
                           "NBA Games for today")
          IN  /\ returns' = Append(returns, r)
              /\ games' = l.games
              /\ formatted' = l.formatted
              /\ Finish(l.result)
    /\ UNCHANGED << op, arg, teams, weather, matching_team, team_stats,
                    east_teams, west_teams >>

\* A get_games_by_date that builds the url and fetches before it validates.
DateGateFetchFirst(date) == TRUE

\* The try / except ValueError around strptime: TRUE lets the call go on.
DateGate(date) == StrptimeAccepts(date)

GetGamesByDate ==
    /\ op = "none" /\ pc = "idle"
    /\ op' = "get_games_by_date"
    /\ \E date \in DateArgs :
          /\ arg' = [date |-> date]
          /\ IF DateGate(date)
             THEN Await(Fetch("games?dates[]", date))
             ELSE Finish(Text("Error: Invalid date format"))
    /\ UNCHANGED << returns, teams, games, weather, matching_team, team_stats,
                    east_teams, west_teams, formatted >>

GamesByDateReturn ==
    /\ Awaiting("get_games_by_date", "games?dates[]")
    /\ \E resp \in Responses(ListBodies(SeqsUpTo(ScheduleGames, MaxGames))) :
          LET r == MakeApiRequest(resp.http)
              l == Listing(r, Received(r, resp),
                           "Error: Unable to fetch NBA games for date",
                           "No NBA games scheduled for date",
                           "NBA Games for date")
          IN  /\ returns' = Append(returns, r)
              /\ games' = l.games
              /\ formatted' = l.formatted
              /\ Finish(l.result)
    /\ UNCHANGED << op, arg, teams, weather, matching_team, team_stats,
                    east_teams, west_teams >>

\* season if season is not None else datetime.now().year
SeasonOf(season) == IF season = "None" THEN "now.year" ELSE season

GetTeamSchedule ==
    /\ op = "none" /\ pc = "idle"
    /\ op' = "get_team_schedule"
    /\ \E team_name \in SeqsUpTo(QueryChars, MaxQueryLen), season \in Seasons :
          arg' = [team_name |-> team_name, season |-> season]
    /\ Await(Fetch("teams", "per_page=100"))
    /\ UNCHANGED << returns, teams, games, weather, matching_team, team_stats,
                    east_teams, west_teams, formatted >>

\* A second stage that is entered whatever the first fetch gave.
SecondFetchAlways(r, data) == ~r.raised

\* "if not teams_data: return ..." and its likes: the handler goes on to
\* its second fetch only with a truthy value from the first.
SecondFetchAllowed(r, data) == ~r.raised /\ ~Falsy(data)

ScheduleTeamsReturn ==
    /\ Awaiting("get_team_schedule", "teams")
    /\ \E resp \in Responses(ListBodies(Rosters(ResolveTeams))) :
          LET r == MakeApiRequest(resp.http)
              data == Received(r, resp)
              ts == IF Falsy(data) THEN << >> ELSE data.data
              found == FindMatchingTeam(arg.team_name, ts)
          IN  /\ returns' = Append(returns, r)
              /\ IF ~SecondFetchAllowed(r, data)
                 THEN /\ teams' = teams /\ matching_team' = matching_team
                      /\ Finish(IF r.raised THEN Escaped
                                ELSE Text("Error: Unable to fetch team information"))
                 ELSE /\ teams' = ts
                      /\ matching_team' = found
                      /\ IF found = 0
                         THEN Finish(Text("Error: Team not found"))
                         ELSE Await(Fetch("games?team_ids[]",
                                          [team_id |-> ts[found].id,
                                           season |-> SeasonOf(arg.season)]))
    /\ UNCHANGED << op, arg, games, weather, team_stats, east_teams, west_teams,
                    formatted >>

ScheduleGamesReturn ==
    /\ Awaiting("get_team_schedule", "games?team_ids[]")
    /\ \E resp \in Responses(ListBodies(SeqsUpTo(ScheduleGames, MaxGames))) :
          LET r == MakeApiRequest(resp.http)
              data == Received(r, resp)
          IN  /\ returns' = Append(returns, r)
              /\ IF r.raised \/ Falsy(data)
                 THEN /\ games' = games /\ formatted' = formatted
                      /\ Finish(IF r.raised THEN Escaped
                                ELSE Text("Error: Unable to fetch schedule"))
                 ELSE IF data.data = << >>
                 THEN /\ games' = << >> /\ formatted' = formatted
                      /\ Finish(Text("No games found"))
                 ELSE /\ games' = SortByDate(data.data)
                      /\ formatted' = FormatGames(Take(games', ScheduleLimit))
                      /\ Finish(Text("Schedule"))
    /\ UNCHANGED << op, arg, teams, weather, matching_team, team_stats,
                    east_teams, west_teams >>

GetStandings ==
    /\ op = "none" /\ pc = "idle"
    /\ op' = "get_standings"
    /\ \E season \in Seasons : arg' = [season |-> season]
    /\ Await(Fetch("teams", "per_page=100"))
    /\ UNCHANGED << returns, teams, games, weather, matching_team, team_stats,
                    east_teams, west_teams, formatted >>

StandingsTeamsReturn ==
    /\ Awaiting("get_standings", "teams")
    /\ \E resp \in Responses(ListBodies(Rosters(AggTeams))) :
          LET r == MakeApiRequest(resp.http)
              data == Received(r, resp)
          IN  /\ returns' = Append(returns, r)
              /\ IF ~SecondFetchAllowed(r, data)
                 THEN /\ teams' = teams
                      /\ Finish(IF r.raised THEN Escaped
                                ELSE Text("Error: Unable to fetch team information"))
                 ELSE /\ teams' = (IF Falsy(data) THEN << >> ELSE data.data)
                      /\ Await(Fetch("games?seasons[]", SeasonOf(arg.season)))
    /\ UNCHANGED << op, arg, games, weather, matching_team, team_stats,
                    east_teams, west_teams, formatted >>

StandingsGamesReturn ==
    /\ Awaiting("get_standings", "games?seasons[]")
    /\ \E resp \in Responses(ListBodies(SeqsUpTo(AggGames, MaxGames))) :
          LET r == MakeApiRequest(resp.http)
              data == Received(r, resp)
          IN  /\ returns' = Append(returns, r)
              /\ IF r.raised \/ Falsy(data)
                 THEN /\ games' = games /\ team_stats' = team_stats
                      /\ east_teams' = east_teams /\ west_teams' = west_teams
                      /\ Finish(IF r.raised THEN Escaped
                                ELSE Text("Error: Unable to fetch games for season"))
                 ELSE LET st == Standings(teams, data.data)
                      IN  /\ games' = data.data
                          /\ team_stats' = st.stats
                          /\ east_teams' = st.east
                          /\ west_teams' = st.west
                          /\ Finish(IF st.raised THEN Exception("KeyError")
                                    ELSE Text("standings"))
    /\ UNCHANGED << op, arg, teams, weather, matching_team, formatted >>

GetAlerts ==
    /\ op = "none" /\ pc = "idle"
    /\ op' = "get_alerts"
    /\ \E state \in StateArgs :
          /\ arg' = [state |-> state]
          /\ IF StateCodeOk(state)
             THEN Await(Fetch("alerts/active/area", NormalizeState(state)))
             ELSE Finish(Text("Error: Invalid state code"))
    /\ UNCHANGED << returns, teams, games, weather, matching_team, team_stats,
                    east_teams, west_teams, formatted >>

AlertsReturn ==
    /\ Awaiting("get_alerts", "alerts/active/area")
    /\ \E resp \in Responses(AlertBodies) :
          LET r == MakeNwsRequest(resp.http)
              data == Received(r, resp)
          IN  /\ returns' = Append(returns, r)
              /\ weather' = data
              /\ IF r.raised THEN formatted' = formatted /\ Finish(Escaped)
                 ELSE IF Falsy(data)
                 THEN /\ formatted' = formatted
                      /\ Finish(Text("Error: Unable to fetch alerts"))
                 ELSE IF data.kind = "no_features"
                 THEN /\ formatted' = formatted
                      /\ Finish(Text("Error: Invalid response format"))
                 ELSE IF data.features = << >>
                 THEN /\ formatted' = formatted
                      /\ Finish(Text("No active weather alerts"))
                 ELSE IF AlertsRaise(data.features)
                 THEN /\ formatted' = formatted
                      /\ Finish(Exception("KeyError"))
                 ELSE /\ formatted' = FormatAlerts(data.features)
                      /\ Finish(Text("alerts"))
    /\ UNCHANGED << op, arg, teams, games, matching_team, team_stats,
                    east_teams, west_teams >>

GetForecast ==
    /\ op = "none" /\ pc = "idle"
    /\ op' = "get_forecast"
    /\ \E latitude \in Latitudes, longitude \in Longitudes :
          /\ arg' = [latitude |-> latitude, longitude |-> longitude]
          /\ IF InUsBounds(latitude, longitude)
             THEN Await(Fetch("points", << latitude, longitude >>))
             ELSE Finish(Text("Error: outside the United States"))
    /\ UNCHANGED << returns, teams, games, weather, matching_team, team_stats,
                    east_teams, west_teams, formatted >>

ForecastPointsReturn ==
    /\ Awaiting("get_forecast", "points")
    /\ \E resp \in Responses(PointsBodies) :
          LET r == MakeNwsRequest(resp.http)
              data == Received(r, resp)
          IN  /\ returns' = Append(returns, r)
              /\ weather' = data
              /\ IF ~SecondFetchAllowed(r, data)
                 THEN Finish(IF r.raised THEN Escaped
                             ELSE Text("Error: Unable to fetch forecast data"))
                 ELSE IF data.kind = "no_properties"
                 THEN Finish(Text("Error: Invalid response from weather service"))
                 ELSE IF data.kind = "no_forecast"
                 THEN Finish(Text("Error: No forecast available"))
                 ELSE Await(Fetch("properties.forecast", "url of the points response"))
    /\ UNCHANGED << op, arg, teams, games, matching_team, team_stats,
                    east_teams, west_teams, formatted >>

ForecastReturn ==
    /\ Awaiting("get_forecast", "properties.forecast")
    /\ \E resp \in Responses(ForecastBodies) :
          LET r == MakeNwsRequest(resp.http)
              data == Received(r, resp)
          IN  /\ returns' = Append(returns, r)
              /\ weather' = data
              /\ IF r.raised THEN formatted' = formatted /\ Finish(Escaped)
                 ELSE IF Falsy(data)
                 THEN /\ formatted' = formatted
                      /\ Finish(Text("Error: Unable to fetch detailed forecast"))
                 ELSE IF data.kind \in {"no_properties", "no_periods"}
                 THEN /\ formatted' = formatted
                      /\ Finish(Text("Error: Invalid forecast data structure"))
                 ELSE IF data.periods = << >>
                 THEN /\ formatted' = formatted
                      /\ Finish(Text("No forecast periods available"))
                 ELSE IF PeriodsRaise(data.periods)
                 THEN /\ formatted' = formatted
                      /\ Finish(Exception("KeyError"))
                 ELSE /\ formatted' = FormatPeriods(data.periods)
                      /\ Finish(Text("forecast"))
    /\ UNCHANGED << op, arg, teams, games, matching_team, team_stats,
                    east_teams, west_teams >>

Next ==
    \/ GetTodayGames \/ TodayGamesReturn
    \/ GetGamesByDate \/ GamesByDateReturn
    \/ GetTeamSchedule \/ ScheduleTeamsReturn \/ ScheduleGamesReturn
    \/ GetStandings \/ StandingsTeamsReturn \/ StandingsGamesReturn
    \/ GetAlerts \/ AlertsReturn
    \/ GetForecast \/ ForecastPointsReturn \/ ForecastReturn

Spec == Init /\ [][Next]_vars

-----------------------------------------------------------------------------
(* Properties of the resolver.                                             *)

Returned == pc = "done" /\ result.kind = "text"

\* The four ways a candidate matches a lower-cased query.
BySubstring(q, team) ==
    \/ IsSubstring(q, Lower(team.full_name))
    \/ IsSubstring(q, Lower(team.city))
    \/ IsSubstring(q, Lower(team.name))

ByAbbreviation(q, team) == q = Lower(team.abbreviation)

Matching(q, ts) ==
    { i \in 1..Len(ts) : BySubstring(q, ts[i]) \/ ByAbbreviation(q, ts[i]) }

\* C6: the resolver returns the first candidate, in the order of the fetched
\* list, that the lower-cased query matches by substring of the full name,
\* the city or the short name or by equality with the abbreviation; it
\* reports not-found exactly when no candidate matches.
C6_FirstMatchInListOrder ==
    (op = "get_team_schedule" /\ pc = "done") =>
        LET m == Matching(Lower(arg.team_name), teams)
        IN  IF m = {}
            THEN matching_team = 0 /\ result = Text("Error: Team not found")
            ELSE /\ matching_team \in m
                 /\ \A j \in m : matching_team <= j
                 /\ result # Text("Error: Team not found")

\* C6: an earlier candidate matched by substring only was returned although
\* a later candidate has the query as its exact abbreviation.
C6_Witness_SubstringBeforeAbbreviation ==
    /\ op = "get_team_schedule" /\ pc = "done"
    /\ \E i, j \in 1..Len(teams) :
          /\ i < j
          /\ matching_team = i
          /\ BySubstring(Lower(arg.team_name), teams[i])
          /\ ~ByAbbreviation(Lower(arg.team_name), teams[i])
          /\ ByAbbreviation(Lower(arg.team_name), teams[j])
          /\ ~BySubstring(Lower(arg.team_name), teams[j])

-----------------------------------------------------------------------------
(* Properties of the aggregation and of format_game.                       *)

RECURSIVE SumWins(_)
SumWins(d) == IF d = << >> THEN 0 ELSE Head(d).wins + SumWins(Tail(d))

RECURSIVE SumLosses(_)
SumLosses(d) == IF d = << >> THEN 0 ELSE Head(d).losses + SumLosses(Tail(d))

BothScores(g) == g.home_team_score # NoScore /\ g.visitor_team_score # NoScore
IsCompleted(g) == g.status = "Final" /\ BothScores(g)
IsTie(g) == BothScores(g) /\ g.home_team_score = g.visitor_team_score
BothIds(g) == g.home_id # NoId /\ g.visitor_id # NoId

HasLine(block, label) == \E k \in 1..Len(block) : block[k].line = label

\* C3: after the aggregation the wins of all teams sum to the losses of all
\* teams, and both to the number of Final games with both scores present
\* and a strict winner.
C3_WinsAndLossesCountDecidedGames ==
    (op = "get_standings" /\ Returned) =>
        /\ SumWins(team_stats) = SumLosses(team_stats)
        /\ SumWins(team_stats) =
              Cardinality({ i \in 1..Len(games) :
                              IsCompleted(games[i]) /\ ~IsTie(games[i]) })

NotTie(g) == ~IsTie(g)

\* C4: a game with both scores present and equal is rendered with a
\* "Result: Tie" line and no "Winner:" line, and the aggregation leaves
\* every counter as it is without that game.
C4_TieIsRenderedAndNotAttributed ==
    /\ \A i \in 1..Len(formatted) :
          IsTie(games[i]) =>
              /\ \E k \in 1..Len(formatted[i]) :
                    formatted[i][k] = Line("Result", "Tie")
              /\ ~HasLine(formatted[i], "Winner")
    /\ (op = "get_standings" /\ Returned) =>
          team_stats = Aggregate(teams, SelectSeq(games, NotTie)).stats

\* C5: wins + losses of every team is the number of completed games (Final,
\* both scores present) in which the team is the home or the visitor team.
C5_WinsPlusLossesCountCompletedGames ==
    (op = "get_standings" /\ Returned) =>
        \A e \in 1..Len(team_stats) :
            team_stats[e].wins + team_stats[e].losses =
                Cardinality({ i \in 1..Len(games) :
                                /\ IsCompleted(games[i])
                                /\ \/ games[i].home_id = team_stats[e].id
                                   \/ games[i].visitor_id = team_stats[e].id })

\* C5, amended: when get_standings returns, wins + losses of every team is
\* the number of Final games with both scores and both team ids present in
\* which the team is the home team, plus the number in which it is the
\* visitor team.
C5_WinsPlusLossesCountAttributedGames ==
    (op = "get_standings" /\ Returned) =>
        \A e \in 1..Len(team_stats) :
            team_stats[e].wins + team_stats[e].losses =
                Cardinality({ i \in 1..Len(games) :
                                /\ IsCompleted(games[i]) /\ BothIds(games[i])
                                /\ games[i].home_id = team_stats[e].id })
                + Cardinality({ i \in 1..Len(games) :
                                /\ IsCompleted(games[i]) /\ BothIds(games[i])
                                /\ games[i].visitor_id = team_stats[e].id })

\* C5: standings were returned for a list holding a completed game that
\* lacks a team id and a completed game that was counted for a team.
C5_Witness_CountedAndSkippedGames ==
    /\ op = "get_standings" /\ Returned
    /\ \E i \in 1..Len(games) : IsCompleted(games[i]) /\ ~BothIds(games[i])
    /\ \E e \in 1..Len(team_stats) :
          team_stats[e].wins + team_stats[e].losses > 0

-----------------------------------------------------------------------------
(* Properties of the order of a standings partition.                       *)

\* The place of a row's team in the fetched list: its first occurrence.
FirstPlace(ts, full_name) ==
    CHOOSE i \in 1..Len(ts) :
        /\ ts[i].full_name = full_name
        /\ \A j \in 1..(i - 1) : ts[j].full_name # full_name

SamePct(r1, r2) == r1.win_pct.num * r2.win_pct.den = r2.win_pct.num * r1.win_pct.den
HigherPct(r1, r2) == r1.win_pct.num * r2.win_pct.den > r2.win_pct.num * r1.win_pct.den

Ordered(rows) ==
    \A i, j \in 1..Len(rows) :
        i < j =>
            \/ rows[i].wins > rows[j].wins
            \/ rows[i].wins = rows[j].wins /\ HigherPct(rows[i], rows[j])
            \/ /\ rows[i].wins = rows[j].wins /\ SamePct(rows[i], rows[j])
               /\ FirstPlace(teams, rows[i].name) < FirstPlace(teams, rows[j].name)

\* C9: each partition is in descending order of wins, then of win
\* percentage among equal wins, and rows equal on both are in the order of
\* their teams in the fetched list.
C9_PartitionsSortedAndStable ==
    (op = "get_standings" /\ Returned) => Ordered(east_teams) /\ Ordered(west_teams)

\* C9: a partition holds two rows with the same wins whose order was
\* decided by the percentage, against the order of the fetched list.
C9_Witness_PercentageBreaksTie ==
    /\ op = "get_standings" /\ Returned
    /\ \E p \in {east_teams, west_teams} :
          \E i, j \in 1..Len(p) :
              /\ i < j
              /\ p[i].wins = p[j].wins
              /\ HigherPct(p[i], p[j])
              /\ FirstPlace(teams, p[i].name) > FirstPlace(teams, p[j].name)

-----------------------------------------------------------------------------
(* Properties of the operations.                                           *)

\* C1: every operation ends by returning text: no exception leaves it,
\* whatever its input and whatever each fetch gave.
C1_EveryOperationReturnsText ==
    pc = "done" => result.kind = "text"

\* A date written YYYY-MM-DD: four, two and two digits around two hyphens,
\* naming a day of the calendar.
IsYmdDate(date) ==
    /\ Len(date) = 10
    /\ AllDigits(SubSeq(date, 1, 4)) /\ date[5] = "-"
    /\ AllDigits(SubSeq(date, 6, 7)) /\ date[8] = "-"
    /\ AllDigits(SubSeq(date, 9, 10))
    /\ IsCalendarDate(IntOf(SubSeq(date, 1, 4)), IntOf(SubSeq(date, 6, 7)),
                      IntOf(SubSeq(date, 9, 10)))

IsStateCode(state) ==
    /\ Len(Strip(Upper(state))) = 2
    /\ \A i \in 1..Len(Strip(Upper(state))) : IsAlphaChar(Strip(Upper(state))[i])

Rejected(msg) == pc = "done" /\ result = Text(msg) /\ fetches = << >>

TwoFetchOps == {"get_team_schedule", "get_standings", "get_forecast"}

\* The message an operation returns when its i-th fetch fails.
StageFailure(o, i) ==
    CASE o = "get_team_schedule" /\ i = 1 -> "Error: Unable to fetch team information"
      [] o = "get_team_schedule" /\ i = 2 -> "Error: Unable to fetch schedule"
      [] o = "get_standings" /\ i = 1 -> "Error: Unable to fetch team information"
      [] o = "get_standings" /\ i = 2 -> "Error: Unable to fetch games for season"
      [] o = "get_forecast" /\ i = 1 -> "Error: Unable to fetch forecast data"
      [] OTHER -> "Error: Unable to fetch detailed forecast"

\* C7: in the operations of two fetches, a fetch is issued only when every
\* earlier one has returned, the second only after the first returned data,
\* and a failed fetch is the last one: the operation ends with the message
\* of that stage and nothing rendered.
C7_FetchesInSequenceAndFailFast ==
    op \in TwoFetchOps =>
        /\ Len(fetches) <= 2
        /\ Len(returns) <= Len(fetches) /\ Len(fetches) <= Len(returns) + 1
        /\ Len(fetches) = 2 => returns[1].http = "ok" /\ returns[1].value = "json"
        /\ \A i \in 1..Len(returns) :
              returns[i].value = "None" =>
                  /\ Len(fetches) = i
                  /\ pc = "done"
                  /\ result = Text(StageFailure(op, i))
                  /\ formatted = << >> /\ east_teams = << >> /\ west_teams = << >>

\* C7: the teams were fetched and the fetch of the games failed.
C7_Witness_SecondFetchFailed ==
    /\ op = "get_standings" /\ pc = "done"
    /\ Len(returns) = 2
    /\ returns[1].value = "json" /\ teams # << >>
    /\ returns[2].value = "None"

\* C8: a call of the fetch client makes one GET attempt, and on a status
\* error, a network failure or a failure to decode it returns None to its
\* caller: nothing is retried and nothing is raised.
C8_OneAttemptAndNoneOnFailure ==
    \A i \in 1..Len(returns) :
        /\ returns[i].attempts = 1
        /\ ~returns[i].raised
        /\ returns[i].http # "ok" => returns[i].value = "None"

\* C8: a call met each kind of failure: here a body that does not decode
\* after a fetch that succeeded.
C8_Witness_DecodeFailure ==
    /\ Len(returns) = 2
    /\ returns[1].http = "ok"
    /\ returns[2].http = "decode_error" /\ returns[2].value = "None"
    /\ pc = "done" /\ result.kind = "text"

====
